---- MODULE Spec2Model ----
\* Model of rllib/offline/offline_data.py: the OfflineData sampling facade and
\* the OfflinePreLearner transform unit (affinity selection, row-to-episode
\* conversion, module filtering).
EXTENDS Integers, Sequences, FiniteSets, TLC

VARIABLES
    mapIn,      \* arguments of OfflinePreLearner._map_to_episodes
    mapOut,     \* its outcome: returned episodes, or the exception raised
    ctor,       \* arguments of OfflinePreLearner.__init__ and the worker's node
    pl,         \* the OfflinePreLearner instance (or the exception raised)
    callIn,     \* last OfflinePreLearner.__call__: raw batch, connector output
    callOut,    \* its outcome: the returned batch, or the exception raised
    od,         \* the OfflineData instance
    learnerState, \* module state (a version) the remote learners hold now
    last,       \* the last OfflineData.sample call and its outcome
    fetches,    \* get_state calls of the last sample call: handle, state
    builds,     \* number of times sample built the batch iterator
    shards      \* the OfflinePreLearner units of the last multi-shard split

unitVars == <<mapIn, mapOut, ctor, pl, callIn, callOut>>
dataVars == <<od, learnerState, last, fetches, builds, shards>>
vars == <<mapIn, mapOut, ctor, pl, callIn, callOut,
          od, learnerState, last, fetches, builds, shards>>

\* ---------------------------------------------------------------- bounds
MaxRows == 2
MaxLearners == 3
MaxVersion == 1
MaxHandles == 2
MaxShards == 2
MaxSamples == 1
MaxCalls == 2

\* ------------------------------------------------------------- constants
NotCalled == [status |-> "not_called"]

\* Column names (ray.rllib.core.columns.Columns plus the old-stack aliases).
EPS_ID == "eps_id"
AGENT_ID == "agent_id"
MODULE_ID == "module_id"
OBS == "obs"
ACTIONS_COL == "actions"
REWARDS == "rewards"
INFOS == "infos"
NEXT_OBS == "new_obs"
TERMINATEDS == "terminateds"
TRUNCATEDS == "truncateds"
T == "t"

SCHEMA ==
    {EPS_ID, AGENT_ID, MODULE_ID, OBS, ACTIONS_COL, REWARDS, INFOS, NEXT_OBS,
     TERMINATEDS, TRUNCATEDS, T, "agent_index", "dones", "unroll_id"}

\* One column outside SCHEMA, i.e. an extra model output.
ExtraColumn == "vf_preds"

\* --------------------------------------------------------- raw batches
\* A raw batch maps each column it has to a sequence of equal length, one
\* entry per row.  The cell of column c in row i is the tagged value
\* Value(c, i), so that an episode records which row each of its fields was
\* read from.  Observations are stored either plain or compressed.
Value(c, i) == [col |-> c, row |-> i, packed |-> FALSE]

Packed(v) == [v EXCEPT !.packed = TRUE]

Cell(c, i, packed) ==
    IF packed /\ c \in {OBS, NEXT_OBS} THEN Packed(Value(c, i)) ELSE Value(c, i)

\* Python's None and False as cell values.
NoneValue == Value("None", 0)
FalseValue == Value("False", 0)

MakeBatch(cols, n, packed) ==
    [c \in cols |-> [i \in 1..n |-> Cell(c, i, packed)]]

\* Columns that are present or absent independently of each other.
VaryingColumns ==
    {EPS_ID, OBS, NEXT_OBS, ACTIONS_COL, REWARDS, INFOS, TERMINATEDS, TRUNCATEDS,
     AGENT_ID, "agent_index", "dones", ExtraColumn}

\* Columns the conversion never reads; present or absent as a group.
UnreadColumns == {MODULE_ID, T, "unroll_id"}

ColumnSets ==
    {v \cup u : v \in SUBSET VaryingColumns, u \in {{}, UnreadColumns}}

RawBatches ==
    {MakeBatch(cols, n, packed) :
        cols \in ColumnSets, n \in 0..MaxRows, packed \in BOOLEAN}

Has(batch, c) == c \in DOMAIN batch

\* ------------------------------------------------ _map_to_episodes
unpack_if_needed(v) ==
    IF v.packed THEN [v EXCEPT !.packed = FALSE] ELSE v

\* The keys the single-agent branch subscripts the batch with for one row,
\* in evaluation order of the SingleAgentEpisode(...) keyword arguments.
RowKeys(batch) ==
    <<EPS_ID, NEXT_OBS, ACTIONS_COL, REWARDS,
      IF Has(batch, TERMINATEDS) THEN TERMINATEDS ELSE "dones">>

MissingKeys(batch) ==
    SelectSeq(RowKeys(batch), LAMBDA k : ~Has(batch, k))

\* agent_id of row i, as if the agent-id lookup ignored the multi-agent flag.
AgentIdOfUnguarded(is_multi_agent, batch, i) ==
    IF Has(batch, AGENT_ID) THEN batch[AGENT_ID][i]
    ELSE IF Has(batch, "agent_index") THEN batch["agent_index"][i]
    ELSE NoneValue

\* agent_id of row i.
AgentIdOf(is_multi_agent, batch, i) ==
    IF is_multi_agent
    THEN IF Has(batch, AGENT_ID) THEN batch[AGENT_ID][i]
         ELSE IF Has(batch, "agent_index") THEN batch["agent_index"][i]
         ELSE NoneValue
    ELSE NoneValue

\* The SingleAgentEpisode built from row i (all subscripted keys present).
BuildEpisode(batch, i, agent_id) ==
    [id_ |-> batch[EPS_ID][i],
     agent_id |-> agent_id,
     observations |-> <<unpack_if_needed(batch[OBS][i]),
                        unpack_if_needed(batch[NEXT_OBS][i])>>,
     infos |-> <<{}, IF Has(batch, INFOS) THEN {batch[INFOS][i]} ELSE {}>>,
     actions |-> <<batch[ACTIONS_COL][i]>>,
     rewards |-> <<batch[REWARDS][i]>>,
     terminated |-> batch[IF Has(batch, TERMINATEDS)
                          THEN TERMINATEDS ELSE "dones"][i],
     truncated |-> IF Has(batch, TRUNCATEDS) THEN batch[TRUNCATEDS][i]
                   ELSE FalseValue,
     extra_model_outputs |->
        [k \in (DOMAIN batch) \ SCHEMA |-> <<batch[k][i]>>],
     len_lookback_buffer |-> 0]

\* The loop over the rows, from row i on, with the episodes appended so far.
RECURSIVE MapRows(_, _, _, _)
MapRows(is_multi_agent, batch, i, episodes) ==
    IF i > Len(batch[OBS])
    THEN [status |-> "ok", episodes |-> episodes]
    ELSE IF is_multi_agent
    THEN \* `pass`, then episodes.append(episode) with `episode` never bound
         [status |-> "UnboundLocalError", name |-> "episode"]
    ELSE IF MissingKeys(batch) # <<>>
    THEN [status |-> "KeyError", key |-> Head(MissingKeys(batch))]
    ELSE MapRows(is_multi_agent, batch, i + 1,
                 Append(episodes,
                        BuildEpisode(batch, i,
                                     AgentIdOf(is_multi_agent, batch, i))))

map_to_episodes(is_multi_agent, batch) ==
    IF ~Has(batch, OBS)
    THEN [status |-> "KeyError", key |-> OBS]
    ELSE MapRows(is_multi_agent, batch, 1, <<>>)

\* ------------------------------------------- OfflinePreLearner.__init__
Nodes == {"n1", "n2", "n3"}

\* The actor handle of the i-th remote learner.
Handle(i) == 100 + i
Handles(n) == [i \in 1..n |-> Handle(i)]

\* self._learner before any assignment: the attribute does not exist.
NoLearner == 0
\* A local Learner instance.
LocalLearner == 1

\* An optional list argument: None, or the list.
NoList == [is_none |-> TRUE, items |-> <<>>]
List(items) == [is_none |-> FALSE, items |-> items]

\* The results random.shuffle can leave in `indices`.
ShuffleResults(n) ==
    {p \in [1..n -> 1..n] : \A a, b \in 1..n : p[a] = p[b] => a = b}

\* locality_hints = [locality_hints[i] for i in indices]
PermuteHints(locality_hints, indices) ==
    [k \in 1..Len(indices) |-> locality_hints[indices[k]]]

\* The handles as if they were left in their original order.
LearnersNotPermuted(learner, indices) == learner

\* learner = [learner[i] for i in indices]
PermuteLearners(learner, indices) ==
    [k \in 1..Len(indices) |-> learner[indices[k]]]

\* The scan as if it stopped at the first match.
RECURSIVE ScanHintsFirst(_, _, _, _, _)
ScanHintsFirst(hints, learner, node_id, k, chosen) ==
    IF k > Len(hints) THEN chosen
    ELSE IF hints[k] = node_id THEN learner[k]
    ELSE ScanHintsFirst(hints, learner, node_id, k + 1, chosen)

\* for i, hint in enumerate(locality_hints): if hint == node_id: ...
\* from position k on; `chosen` is self._learner so far.
RECURSIVE ScanHints(_, _, _, _, _)
ScanHints(hints, learner, node_id, k, chosen) ==
    IF k > Len(hints) THEN chosen
    ELSE ScanHints(hints, learner, node_id, k + 1,
                   IF hints[k] = node_id THEN learner[k] ELSE chosen)

\* `not handle`: an ActorHandle defines neither __bool__ nor __len__.
IsFalsy(handle) == FALSE

Unit(status, learner, remote, module, config, indices, fallback) ==
    [status |-> status, _learner |-> learner, learner_is_remote |-> remote,
     _module |-> module, config |-> config,
     indices |-> indices, used_fallback |-> fallback]

NoModule == [live |-> FALSE, state |-> 0 - 1]
\* config.policies_to_train: None, a collection of module ids, or a callable
\* (module_id, multi_agent_batch) -> bool.
Modules == {"A", "B", "C"}
Policy(kind, ids, fn) == [kind |-> kind, ids |-> ids, fn |-> fn]
PolicyNone == Policy("none", {}, "-")
PolicySets == {Policy("set", ids, "-") : ids \in SUBSET Modules}
PolicyCallables ==
    {Policy("callable", {}, fn) : fn \in {"never", "always", "with_others", "alone"}}
        \cup {Policy("callable", {m}, "is") : m \in Modules}
Policies == {PolicyNone} \cup PolicySets \cup PolicyCallables

DefaultConfig == [policies_to_train |-> PolicyNone, is_multi_agent |-> FALSE]

NotBuilt == Unit("not_built", NoLearner, FALSE, NoModule, DefaultConfig,
                 <<>>, FALSE)

\* The remote branch once the lists are permuted.
BindRemote(c, indices, rand) ==
    LET hints == PermuteHints(c.locality_hints.items, indices)
        learner == PermuteLearners(c.learner.handles, indices)
        chosen == ScanHints(hints, learner, c.node_id, 1, NoLearner)
    IN  IF chosen = NoLearner
        THEN \* `if not self._learner` reads an attribute never assigned
             Unit("AttributeError", NoLearner, FALSE, NoModule, c.config,
                  indices, FALSE)
        ELSE LET fallback == IsFalsy(chosen)
                 bound == IF fallback THEN learner[rand] ELSE chosen
             IN  IF ~c.module_spec
                 THEN \* module_spec is None: None.build()
                      Unit("AttributeError", bound, TRUE, NoModule, c.config,
                           indices, fallback)
                 ELSE Unit("ok", bound, TRUE,
                           [live |-> FALSE, state |-> c.module_state],
                           c.config, indices, fallback)

\* OfflinePreLearner.__init__ with the draws of random.shuffle (indices) and
\* random.randint (rand).
PreLearnerInit(c, indices, rand) ==
    IF c.learner.kind = "Learner"
    THEN Unit("ok", LocalLearner, FALSE, [live |-> TRUE, state |-> 0],
              c.config, <<>>, FALSE)
    ELSE IF c.locality_hints.is_none
    THEN \* len(None)
         Unit("TypeError", NoLearner, FALSE, NoModule, c.config, <<>>, FALSE)
    ELSE IF Len(c.learner.handles) < Len(c.locality_hints.items)
    THEN Unit("IndexError", NoLearner, FALSE, NoModule, c.config,
              indices, FALSE)
    ELSE BindRemote(c, indices, rand)

\* The draws the constructor can make for its arguments.
ShuffleDraws(c) ==
    IF c.locality_hints.is_none THEN {<<>>}
    ELSE ShuffleResults(Len(c.locality_hints.items))

\* random.randint(0, len(learner) - 1) is called only on the fallback line.
RandDraws(c, indices) ==
    IF /\ c.learner.kind # "Learner"
       /\ ~c.locality_hints.is_none
       /\ Len(c.learner.handles) >= Len(c.locality_hints.items)
       /\ LET chosen == ScanHints(
                    PermuteHints(c.locality_hints.items, indices),
                    PermuteLearners(c.learner.handles, indices),
                    c.node_id, 1, NoLearner)
          IN  chosen # NoLearner /\ IsFalsy(chosen)
    THEN 1..Len(c.learner.handles)
    ELSE {1}

Args(learner, hints, spec, st, node, config) ==
    [learner |-> learner, locality_hints |-> hints, module_spec |-> spec,
     module_state |-> st, node_id |-> node, config |-> config]

NoArgs ==
    Args([kind |-> "none", handles |-> <<>>], NoList, FALSE, 0, "n1",
         DefaultConfig)

\* Remote case: a list of handles and a parallel list of hints.
RemoteArgs ==
    UNION {
        {Args([kind |-> "handles", handles |-> Handles(n)], List(hints),
              spec, st, node, DefaultConfig) :
            hints \in [1..n -> Nodes], spec \in BOOLEAN,
            st \in 0..MaxVersion, node \in Nodes} :
        n \in 0..MaxLearners}

\* Local case: a Learner instance and nothing else.
LocalArgs ==
    {Args([kind |-> "Learner", handles |-> <<>>], NoList, FALSE, 0, node,
          DefaultConfig) : node \in Nodes}

\* ------------------------------------------- OfflinePreLearner.__call__
\* The callables used as policies_to_train; ids are the module ids the
\* multi-agent batch holds when the callable is called.
CallPolicy(policy, module_id, ids) ==
    CASE policy.fn = "never" -> FALSE
      [] policy.fn = "always" -> TRUE
      [] policy.fn = "is" -> module_id \in policy.ids
      [] policy.fn = "with_others" -> ids \ {module_id} # {}
      [] policy.fn = "alone" -> ids \subseteq {module_id}

\* `not self._policies_to_train`
PolicyIsFalsy(policy) ==
    \/ policy.kind = "none"
    \/ policy.kind = "set" /\ policy.ids = {}

should_module_be_updated(policy, module_id, multi_agent_batch) ==
    IF PolicyIsFalsy(policy) THEN TRUE
    ELSE IF policy.kind # "callable" THEN module_id \in policy.ids
    ELSE CallPolicy(policy, module_id, DOMAIN multi_agent_batch)

Without(policy_batches, module_id) ==
    [m \in (DOMAIN policy_batches) \ {module_id} |-> policy_batches[m]]

\* for module_id in list(batch.policy_batches.keys()): ... del ...
\* from key k on; policy_batches is the batch as filtered so far.
RECURSIVE RemoveUntrained(_, _, _, _)
RemoveUntrained(policy, keys, k, policy_batches) ==
    IF k > Len(keys) THEN policy_batches
    ELSE RemoveUntrained(policy, keys, k + 1,
            IF should_module_be_updated(policy, keys[k], policy_batches)
            THEN policy_batches
            ELSE Without(policy_batches, keys[k]))

\* sum(e.env_steps() for e in episodes): one step per action.
RECURSIVE EnvSteps(_)
EnvSteps(episodes) ==
    IF episodes = <<>> THEN 0
    ELSE Len(Head(episodes).actions) + EnvSteps(Tail(episodes))

NoBatch == [m \in {} |-> 0]
SampleBatch(module_id, episodes) ==
    [module_id |-> module_id, rows |-> Len(episodes)]

CallResult(status, policy_batches, env_steps) ==
    [status |-> status, policy_batches |-> policy_batches,
     env_steps |-> env_steps]

\* OfflinePreLearner.__call__ on a raw batch; keys is the order of the module
\* ids in the learner connector pipeline's output.
PreLearnerCall(unit, batch, keys) ==
    LET mapped == map_to_episodes(unit.config.is_multi_agent, batch)
    IN  IF mapped.status # "ok"
        THEN CallResult(mapped.status, NoBatch, 0)
        ELSE LET policy_batches ==
                    [m \in {keys[k] : k \in 1..Len(keys)} |->
                        SampleBatch(m, mapped.episodes)]
             IN  CallResult("ok",
                    RemoveUntrained(unit.config.policies_to_train, keys, 1,
                                    policy_batches),
                    EnvSteps(mapped.episodes))

\* Outputs of the connector pipeline: module ids in insertion order.
ModuleOrders ==
    {keys \in UNION {[1..n -> Modules] : n \in 0..Cardinality(Modules)} :
        \A a, b \in 1..Len(keys) : keys[a] = keys[b] => a = b}

CallBatches ==
    {MakeBatch(SCHEMA \cup {ExtraColumn}, n, FALSE) : n \in 0..MaxRows}
        \cup {MakeBatch(SCHEMA \ {REWARDS}, 1, TRUE)}

Configs == [policies_to_train : Policies, is_multi_agent : BOOLEAN]

CallArgs ==
    {Args([kind |-> "Learner", handles |-> <<>>], NoList, FALSE, 0, "n1",
          config) : config \in Configs}

\* ------------------------------------------------------- OfflineData
NoIterator == [id |-> 0, batch_size |-> 0]

OfflineData(status, data, iterator, handles, hints, module_spec) ==
    [status |-> status, data |-> data, batch_iterator |-> iterator,
     learner_handles |-> handles, locality_hints |-> hints,
     module_spec |-> module_spec]

\* Before OfflineData.__init__ has run.
NotConstructed == OfflineData("new", FALSE, NoIterator, NoList, NoList, FALSE)

\* OfflineData.__init__: `data` says whether the attribute self.data was
\* assigned before the reader (or the schema logging) raised.
OfflineDataInit(reader) ==
    OfflineData("ready", reader # "read_fails", NoIterator, NoList, NoList,
                FALSE)

NoSnapshot == 0 - 1

SampleResult(id, kind, return_iterator, num_shards, iterator, st) ==
    [id |-> id, kind |-> kind, return_iterator |-> return_iterator,
     num_shards |-> num_shards, iterator |-> iterator, module_state |-> st]

NoSample == SampleResult(0, "none", FALSE, 0, NoIterator, NoSnapshot)

\* The condition under which sample (re)builds self.batch_iterator, as if
\* the check of the cached iterator guarded both modes.
BuildsIteratorGuarded(o, return_iterator, num_shards) ==
    /\ ~return_iterator \/ (return_iterator /\ num_shards <= 1)
    /\ o.batch_iterator = NoIterator

\* The condition under which sample (re)builds self.batch_iterator:
\* `not a or a and b and c` is  (not a) or (a and b and c).
BuildsIterator(o, return_iterator, num_shards) ==
    \/ ~return_iterator
    \/ (return_iterator /\ num_shards <= 1 /\ o.batch_iterator = NoIterator)

\* The exception the iterator construction raises, or "ok".
BuildError(o) ==
    IF ~o.data THEN "AttributeError"           \* self.data was never set
    ELSE IF o.learner_handles.is_none THEN "TypeError"   \* None[0]
    ELSE IF o.learner_handles.items = <<>> THEN "IndexError"
    ELSE "ok"

\* The handles the multi-shard branch calls get_state on, as if it fetched
\* once per shard.
GetStateCallsPerShard(o, num_shards) ==
    [k \in 1..num_shards |-> o.learner_handles.items[1]]

\* The handles the multi-shard branch calls get_state on, in order.
GetStateCalls(o, num_shards) == <<o.learner_handles.items[1]>>

\* The exception the module-state fetch raises, or "ok".
FetchError(o) ==
    IF o.learner_handles.is_none THEN "TypeError"      \* None[0]
    ELSE IF o.learner_handles.items = <<>> THEN "IndexError"
    ELSE IF o.learner_handles.items[1] = LocalLearner
    THEN "AttributeError"          \* a local Learner method has no .remote
    ELSE "ok"

\* fn_constructor_kwargs of the single-iterator pipeline, on a worker.
IteratorUnitArgs(o, node) ==
    Args([kind |-> IF o.learner_handles.items[1] = LocalLearner
                   THEN "Learner" ELSE "handles",
          handles |-> <<o.learner_handles.items[1]>>],
         NoList, FALSE, 0, node, DefaultConfig)

\* fn_constructor_kwargs of the multi-shard pipeline, on a worker.
ShardUnitArgs(o, module_state, node) ==
    Args([kind |-> "handles", handles |-> o.learner_handles.items],
         o.locality_hints, o.module_spec, module_state, node, DefaultConfig)

\* next(iter(self.batch_iterator))["batch"][0]: the pipeline constructs its
\* units and returns a batch, or the units' constructor raises.
PullKind(o) ==
    LET unit == PreLearnerInit(IteratorUnitArgs(o, "n1"), <<>>, 1)
    IN  IF unit.status = "ok" THEN "batch" ELSE unit.status

\* ------------------------------------------- specification: conversion
IdleUnit == ctor = NoArgs /\ pl = NotBuilt
IdleEpisodes ==
    /\ mapIn = [is_multi_agent |-> FALSE, batch |-> MakeBatch({}, 0, FALSE)]
    /\ mapOut = NotCalled
NoCall == [batch |-> MakeBatch({}, 0, FALSE), keys |-> <<>>]
IdleCall ==
    /\ callIn = NoCall
    /\ callOut = CallResult("not_called", NoBatch, 0)

IdleData ==
    /\ od = NotConstructed
    /\ learnerState = 0
    /\ last = NoSample
    /\ fetches = <<>>
    /\ builds = 0
    /\ shards = <<>>

InitEpisodes ==
    /\ mapIn \in [is_multi_agent : BOOLEAN, batch : RawBatches]
    /\ mapOut = NotCalled
    /\ IdleUnit
    /\ IdleCall
    /\ IdleData

MapToEpisodes ==
    /\ mapOut = NotCalled
    /\ mapOut' = map_to_episodes(mapIn.is_multi_agent, mapIn.batch)
    /\ UNCHANGED <<mapIn, ctor, pl, callIn, callOut>>
    /\ UNCHANGED dataVars

NextEpisodes == MapToEpisodes

SpecEpisodes == InitEpisodes /\ [][NextEpisodes]_vars

\* --------------------------------------------- specification: affinity
InitAffinity ==
    /\ ctor \in RemoteArgs \cup LocalArgs
    /\ pl = NotBuilt
    /\ IdleEpisodes
    /\ IdleCall
    /\ IdleData

Construct ==
    /\ pl = NotBuilt
    /\ \E indices \in ShuffleDraws(ctor) :
          \E rand \in RandDraws(ctor, indices) :
            pl' = PreLearnerInit(ctor, indices, rand)
    /\ UNCHANGED <<ctor, mapIn, mapOut, callIn, callOut>>
    /\ UNCHANGED dataVars

NextAffinity == Construct

SpecAffinity == InitAffinity /\ [][NextAffinity]_vars

\* ------------------------------------------- specification: invocation
InitCall ==
    /\ ctor \in CallArgs
    /\ pl = NotBuilt
    /\ IdleEpisodes
    /\ IdleCall
    /\ IdleData

Invoke ==
    /\ pl.status = "ok"
    /\ \E batch \in CallBatches, keys \in ModuleOrders :
          /\ callIn' = [batch |-> batch, keys |-> keys]
          /\ callOut' = PreLearnerCall(pl, batch, keys)
    /\ UNCHANGED <<ctor, pl, mapIn, mapOut>>
    /\ UNCHANGED dataVars

NextCall == Construct \/ Invoke

SpecCall == InitCall /\ [][NextCall]_vars

\* --------------------------------------------- specification: sampling
\* The nodes the learners and the data workers of the facade run on.
ClusterNodes == {"n1", "n2"}

\* The constructed object: `indices` is a local of __init__, not kept.
Instance(unit) == [unit EXCEPT !.indices = <<>>]

Init ==
    /\ IdleData
    /\ IdleUnit
    /\ IdleEpisodes
    /\ IdleCall

\* OfflineData(config): the reader fails, or the dataset loads and logging
\* its schema fails, or both succeed; the exception is logged in each case.
NewOfflineData ==
    /\ od.status = "new"
    /\ \E reader \in {"read_fails", "schema_fails", "ok"} :
          od' = OfflineDataInit(reader)
    /\ UNCHANGED <<learnerState, last, fetches, builds, shards>>
    /\ UNCHANGED unitVars

\* The owner of the facade assigns learner_handles, locality_hints and
\* module_spec: remote learner actors with their nodes, or one local Learner.
SetLearners ==
    /\ od.status = "ready"
    /\ od.learner_handles.is_none
    /\ \/ \E n \in 1..MaxHandles : \E hints \in [1..n -> ClusterNodes] :
             od' = [od EXCEPT !.learner_handles = List(Handles(n)),
                              !.locality_hints = List(hints),
                              !.module_spec = TRUE]
       \/ od' = [od EXCEPT !.learner_handles = List(<<LocalLearner>>)]
    /\ UNCHANGED <<learnerState, last, fetches, builds, shards>>
    /\ UNCHANGED unitVars

\* The remote learners train: their module state moves on.
LearnerUpdate ==
    /\ learnerState < MaxVersion
    /\ learnerState' = learnerState + 1
    /\ UNCHANGED <<od, last, fetches, builds, shards>>
    /\ UNCHANGED unitVars

\* What handle.get_state.remote(...) returns now.
StateOf(handle) == learnerState

\* OfflineData.sample(num_samples, return_iterator, num_shards)
Sample(num_samples, return_iterator, num_shards) ==
    LET id == last.id + 1
        Result(kind, iterator, module_state) ==
            SampleResult(id, kind, return_iterator, num_shards, iterator,
                         module_state)
        build == BuildsIterator(od, return_iterator, num_shards)
        built == [id |-> builds + 1, batch_size |-> num_samples]
    IN
    /\ od.status = "ready"
    /\ last.id < MaxCalls
    /\ IF build /\ BuildError(od) # "ok"
       THEN /\ last' = Result(BuildError(od), NoIterator, NoSnapshot)
            /\ fetches' = <<>>
            /\ UNCHANGED <<od, builds, shards>>
       ELSE LET o == IF build THEN [od EXCEPT !.batch_iterator = built]
                     ELSE od
            IN
            /\ od' = o
            /\ builds' = IF build THEN builds + 1 ELSE builds
            /\ IF return_iterator /\ num_shards > 1
               THEN IF FetchError(o) # "ok"
                    THEN /\ last' = Result(FetchError(o), NoIterator,
                                           NoSnapshot)
                         /\ fetches' = <<>>
                         /\ UNCHANGED shards
                    ELSE LET calls == GetStateCalls(o, num_shards)
                             module_state == StateOf(calls[Len(calls)])
                         IN
                         /\ fetches' =
                               [k \in 1..Len(calls) |->
                                   [handle |-> calls[k],
                                    state |-> StateOf(calls[k])]]
                         /\ IF ~o.data
                            THEN /\ last' = Result("AttributeError",
                                                   NoIterator, NoSnapshot)
                                 /\ UNCHANGED shards
                            ELSE /\ last' = Result("shards", NoIterator,
                                                   module_state)
                                 /\ shards' = [k \in 1..num_shards |->
                                                  NotBuilt]
               ELSE /\ last' =
                        IF return_iterator
                        THEN Result("iterator", o.batch_iterator, NoSnapshot)
                        ELSE Result(PullKind(o), o.batch_iterator, NoSnapshot)
                    /\ fetches' = <<>>
                    /\ UNCHANGED shards
    /\ UNCHANGED learnerState
    /\ UNCHANGED unitVars

SampleCall ==
    \E num_samples \in 1..MaxSamples, return_iterator \in BOOLEAN,
       num_shards \in 1..MaxShards :
        Sample(num_samples, return_iterator, num_shards)

\* The data pipeline starts the k-th unit of the split on some node.
StartShardUnit ==
    /\ last.kind = "shards"
    /\ \E k \in 1..Len(shards), node \in ClusterNodes :
          /\ shards[k] = NotBuilt
          /\ LET c == ShardUnitArgs(od, last.module_state, node)
             IN  \E indices \in ShuffleDraws(c) :
                   \E rand \in RandDraws(c, indices) :
                     shards' = [shards EXCEPT
                        ![k] = Instance(PreLearnerInit(c, indices, rand))]
    /\ UNCHANGED <<od, learnerState, last, fetches, builds>>
    /\ UNCHANGED unitVars

ShardBatches == {MakeBatch(SCHEMA, 1, TRUE)}

\* The data pipeline passes a raw batch to a unit of the split.
InvokeShardUnit ==
    /\ last.kind = "shards"
    /\ \E k \in 1..Len(shards), batch \in ShardBatches :
          /\ shards[k].status = "ok"
          /\ callIn' = [batch |-> batch, keys |-> <<"A">>]
          /\ callOut' = PreLearnerCall(shards[k], batch, <<"A">>)
    /\ UNCHANGED <<mapIn, mapOut, ctor, pl>>
    /\ UNCHANGED dataVars

Next ==
    \/ NewOfflineData
    \/ SetLearners
    \/ LearnerUpdate
    \/ SampleCall
    \/ StartShardUnit
    \/ InvokeShardUnit

Spec == Init /\ [][Next]_vars

\* -------------------------------------------------- claims: sampling
\* C3: the single-batch / single-shard iterator is built at most once; later
\* single-batch and single-shard calls reuse the cached iterator, and a
\* single-shard iterator call returns that cached iterator.
C3_IteratorBuiltOnce ==
    last.kind \in {"batch", "iterator"}
        => /\ builds <= 1
           /\ od.batch_iterator.id = 1
           /\ last.iterator = od.batch_iterator

\* C4: when the reader failed during construction, construction completes
\* and every later sample call fails with the explicit "dataset
\* unavailable" condition.
C4_DatasetUnavailable ==
    (od.status = "ready" /\ ~od.data /\ last.id > 0)
        => last.kind = "DatasetUnavailable"

\* C5: in a multi-shard sample call the module state is fetched exactly
\* once, from the first learner handle, before the split is returned; every
\* unit of the split is constructed with that fetched state, and no unit
\* invocation fetches again.
C5_SnapshotFetchedOnce ==
    last.kind = "shards"
        => /\ Len(fetches) = 1
           /\ \A i \in DOMAIN fetches :
                 /\ fetches[i].handle = od.learner_handles.items[1]
                 /\ fetches[i].handle = Handle(1)
                 /\ fetches[i].state = last.module_state
           /\ Len(shards) = last.num_shards
           /\ \A k \in 1..Len(shards) :
                 shards[k].status = "ok"
                    => /\ shards[k]._module.state = last.module_state
                       /\ ~shards[k]._module.live

C5_Witness ==
    /\ last.kind = "shards"
    /\ Len(shards) >= 2
    /\ \A k \in 1..Len(shards) : shards[k].status = "ok"
    /\ learnerState # last.module_state
    /\ callOut.status = "ok"
    /\ Len(fetches) = 1

\* ------------------------------------------------ claims: conversion
Converted == mapOut # NotCalled

Rows(batch) == IF Has(batch, OBS) THEN Len(batch[OBS]) ELSE 0

RequiredColumns == {EPS_ID, OBS, NEXT_OBS, ACTIONS_COL, REWARDS}

\* C7: a raw batch that lacks one of the required columns episode-id,
\* observation, next-observation, action, reward makes the conversion fail
\* with the malformed-batch failure (the missing-key error) and return no
\* episodes, also when the batch has zero rows.
C7_MissingColumnFails ==
    (Converted /\ ~(RequiredColumns \subseteq DOMAIN mapIn.batch))
        => mapOut.status = "KeyError"

\* Episode e holds row i: two observations and two infos, one action and one
\* reward, no agent id, a lookback buffer of 0.
EpisodeOfRow(e, i) ==
    /\ e.id_ = Value(EPS_ID, i)
    /\ e.agent_id = NoneValue
    /\ e.observations = <<Value(OBS, i), Value(NEXT_OBS, i)>>
    /\ Len(e.infos) = 2
    /\ e.infos[1] = {}
    /\ e.infos[2] = {Value(INFOS, i)}
    /\ e.actions = <<Value(ACTIONS_COL, i)>>
    /\ e.rewards = <<Value(REWARDS, i)>>
    /\ e.len_lookback_buffer = 0

\* C8: with every reserved column present and the single-agent flag, the
\* conversion returns one episode per row, in row order, episode i read from
\* row i, with two observations and two infos, one action and one reward,
\* no agent id and a lookback buffer of 0.
C8_OneEpisodePerRow ==
    (Converted /\ ~mapIn.is_multi_agent /\ SCHEMA \subseteq DOMAIN mapIn.batch)
        => /\ mapOut.status = "ok"
           /\ Len(mapOut.episodes) = Rows(mapIn.batch)
           /\ \A i \in 1..Rows(mapIn.batch) :
                 EpisodeOfRow(mapOut.episodes[i], i)

C8_Witness ==
    /\ Converted
    /\ ~mapIn.is_multi_agent
    /\ SCHEMA \subseteq DOMAIN mapIn.batch
    /\ Rows(mapIn.batch) >= 2
    /\ mapIn.batch[OBS][2].packed
    /\ mapOut.status = "ok"
    /\ Len(mapOut.episodes) >= 2

\* C10: with the multi-agent flag and a non-empty batch the conversion raises
\* an explicit "unsupported" signal, not an unrelated error, and returns no
\* episode sequence.
C10_MultiAgentUnsupported ==
    (Converted /\ mapIn.is_multi_agent /\ Rows(mapIn.batch) > 0)
        => mapOut.status = "NotImplementedError"

\* -------------------------------------------------- claims: affinity
Constructed == pl # NotBuilt

RemoteCase ==
    /\ ctor.learner.kind = "handles"
    /\ ~ctor.locality_hints.is_none
    /\ ctor.module_spec
    /\ Len(ctor.learner.handles) > 0

\* Original indices whose hint is the worker's own node.
LocalIndices ==
    {j \in 1..Len(ctor.locality_hints.items) :
        ctor.locality_hints.items[j] = ctor.node_id}

\* Permuted positions whose hint is the worker's own node.
LocalPositions ==
    {k \in 1..Len(pl.indices) : pl.indices[k] \in LocalIndices}

SetMin(S) == CHOOSE x \in S : \A y \in S : x <= y
SetMax(S) == CHOOSE x \in S : \A y \in S : x >= y

\* C1: with no hint equal to the worker's node, construction completes and
\* the unit is bound to a handle that is a member of the supplied list.
C1_FallbackBindsMember ==
    (Constructed /\ RemoteCase /\ LocalIndices = {})
        => /\ pl.status = "ok"
           /\ \E j \in 1..Len(ctor.learner.handles) :
                 pl._learner = ctor.learner.handles[j]

\* C2: with exactly one hint equal to the worker's node, the unit is bound
\* to the handle at that hint's original index, whatever the permutation,
\* and the random fallback is not taken.
C2_SingleLocalBound ==
    (Constructed /\ RemoteCase /\ Cardinality(LocalIndices) = 1)
        => /\ pl.status = "ok"
           /\ \A j \in LocalIndices : pl._learner = Handle(j)
           /\ ~pl.used_fallback

C2_Witness ==
    /\ Constructed
    /\ RemoteCase
    /\ Len(ctor.learner.handles) >= 3
    /\ LocalIndices = {2}
    /\ pl.indices[1] = 3
    /\ pl.indices[3] = 2
    /\ pl._learner = Handle(2)

\* C9 (as stated): with several hints equal to the worker's node, the unit
\* is bound to the handle of the first match in the permuted order.
C9_FirstMatchBound ==
    (Constructed /\ RemoteCase /\ Cardinality(LocalIndices) >= 2)
        => pl._learner = Handle(pl.indices[SetMin(LocalPositions)])

\* C9 (amended): with several hints equal to the worker's node, the unit is
\* bound to the handle of the last match in the permuted order.
C9_LastMatchBound ==
    (Constructed /\ RemoteCase /\ Cardinality(LocalIndices) >= 2)
        => /\ pl.status = "ok"
           /\ pl._learner = Handle(pl.indices[SetMax(LocalPositions)])

C9_Witness ==
    /\ Constructed
    /\ RemoteCase
    /\ Cardinality(LocalIndices) >= 2
    /\ Cardinality(LocalIndices) < Len(ctor.learner.handles)
    /\ SetMin(LocalPositions) = 1
    /\ pl._learner = Handle(pl.indices[SetMax(LocalPositions)])
    /\ pl._learner # Handle(pl.indices[1])

\* ------------------------------------------------ claims: invocation
\* The module ids the inclusion policy admits among ids, judged on the
\* pipeline's full output.
Admitted(policy, ids) ==
    IF PolicyIsFalsy(policy) THEN ids
    ELSE IF policy.kind = "set" THEN ids \cap policy.ids
    ELSE {m \in ids : CallPolicy(policy, m, ids)}

PipelineIds == {callIn.keys[k] : k \in 1..Len(callIn.keys)}

\* C6: the module ids of the returned batch are exactly the pipeline's
\* output ids the inclusion policy admits (all without a policy, the members
\* of a fixed set, those the predicate accepts on the full batch), and the
\* kept sub-batches are unchanged.
C6_FilterMatchesPolicy ==
    callOut.status = "ok"
        => /\ DOMAIN callOut.policy_batches
                = Admitted(pl.config.policies_to_train, PipelineIds)
           /\ \A m \in DOMAIN callOut.policy_batches :
                 callOut.policy_batches[m]
                    = SampleBatch(m, [i \in 1..callOut.env_steps |-> i])

====
